---- MODULE Spec2Model ----
(***************************************************************************)
(* Model of the pre-simulation filter of the jito-mev-bot pipeline        *)
(* (pre-simulation-filter.ts, wired in bot.ts).                            *)
(*                                                                         *)
(* Three parties act on the state:                                         *)
(*   - the producer (mempool) pushing batches into the bounded relay       *)
(*     (dropBeyondHighWaterMark),                                          *)
(*   - the async generator preSimulationFilter, whose suspension points   *)
(*     are the pull from the relay, each await of the lookup-table        *)
(*     provider, and each yield,                                           *)
(*   - the downstream stage calling next() on the generator.               *)
(***************************************************************************)
EXTENDS Integers, Sequences, FiniteSets, TLC

(* ------------------------------------------------------------------ *)
(* Bounds                                                              *)
(* ------------------------------------------------------------------ *)
\* number of batches the producer pushes at most
MaxBatches == 3
\* the capacity handed to the relay is drawn from 1..MaxCapacity
MaxCapacity == 2
\* Date.now() ranges over 1..MaxClock
MaxClock == 2

(* ------------------------------------------------------------------ *)
(* Values                                                              *)
(* ------------------------------------------------------------------ *)
\* null: result of the lookup-table provider for a missing table, and value
\* of accountKeys when getAccountKeys threw
NULL == [null |-> TRUE]

\* PublicKey.toBase58(): public keys are the numbers 1..4, their base58
\* strings are the entries of this table (an injective encoding)
Base58 == << "882DFRCi5akKFyYxT4PP2vZkoQEGvm2Nsind2nPDuGqu", "MktA", "MktB", "Other" >>
toBase58(key) == Base58[key]

SKIP_TX_IF_CONTAINS_ADDRESS == << "882DFRCi5akKFyYxT4PP2vZkoQEGvm2Nsind2nPDuGqu" >>

\* Array.prototype.includes
includes(arr, s) == \E i \in DOMAIN arr : arr[i] = s

\* the market registry's predicate
InterestAddresses == {"MktA", "MktB"}
isTokenAccountOfInterest(keyStr) == keyStr \in InterestAddresses

\* on-chain lookup tables: table address |-> addresses it holds
TableAddresses == (11 :> <<2, 4>>) @@ (12 :> <<3, 1>>)
AddressLookupTableAccount(addr) == [key |-> addr, addresses |-> TableAddresses[addr]]

\* lookupTableProvider.getLookupTable(accountKey): the table, or null when
\* the provider cannot find it; either may happen on any call
getLookupTable(accountKey) ==
  {NULL} \cup (IF accountKey \in DOMAIN TableAddresses
                 THEN {AddressLookupTableAccount(accountKey)} ELSE {})

(* ------------------------------------------------------------------ *)
(* Transactions and batches the producer can send                      *)
(* ------------------------------------------------------------------ *)
Lookup(addr, w, r) == [accountKey |-> addr, writableIndexes |-> w, readonlyIndexes |-> r]
Txn(static, lookups) == [staticAccountKeys |-> static, addressTableLookups |-> lookups]

TxPassDup     == Txn(<<2, 3, 2>>, <<>>)
TxPassRev     == Txn(<<3, 2, 3>>, <<>>)
TxEmpty       == Txn(<<4>>, <<>>)
TxSkip        == Txn(<<2, 1, 3>>, <<>>)
TxOneTable    == Txn(<<4>>, << Lookup(11, <<0>>, <<>>) >>)
TxTwoTables   == Txn(<<3>>, << Lookup(11, <<0>>, <<1>>), Lookup(12, <<0>>, <<>>) >>)
TxSkipInTable == Txn(<<2>>, << Lookup(12, <<>>, <<1>>) >>)
TxSameTable   == Txn(<<4>>, << Lookup(11, <<>>, <<1>>), Lookup(11, <<0>>, <<>>) >>)
TxBadIndex    == Txn(<<3>>, << Lookup(11, <<5>>, <<>>) >>)

\* the batches the producer chooses from
BatchCatalog ==
  << << TxPassDup, TxOneTable, TxPassRev >>,
     << TxSkip, TxEmpty, TxSameTable >>,
     << TxTwoTables, TxSkipInTable, TxBadIndex >> >>

(* ------------------------------------------------------------------ *)
(* Message.getAccountKeys and MessageAccountKeys.keySegments           *)
(* ------------------------------------------------------------------ *)
RECURSIVE Flat(_)
Flat(segs) == IF segs = <<>> THEN <<>> ELSE Head(segs) \o Flat(Tail(segs))

\* addressLookupTableAccounts.find(account => account.key.equals(k))
HasTable(alts, k) == \E i \in DOMAIN alts : alts[i].key = k
FindTable(alts, k) ==
  alts[CHOOSE i \in DOMAIN alts :
         alts[i].key = k /\ \A j \in DOMAIN alts : alts[j].key = k => i <= j]

\* addresses picked by a list of (0-based) indexes; the caller checks the range
Pick(addresses, indexes) == [i \in DOMAIN indexes |-> addresses[indexes[i] + 1]]

IndexesInRange(addresses, indexes) ==
  \A i \in DOMAIN indexes : indexes[i] < Len(addresses)

\* resolveAddressTableLookups throws when a table is missing from the list
\* it is given or an index is beyond the table
LookupResolves(alts, lookup) ==
  /\ HasTable(alts, lookup.accountKey)
  /\ IndexesInRange(FindTable(alts, lookup.accountKey).addresses, lookup.writableIndexes)
  /\ IndexesInRange(FindTable(alts, lookup.accountKey).addresses, lookup.readonlyIndexes)

\* txn.message.getAccountKeys({addressLookupTableAccounts}): the
\* MessageAccountKeys, or NULL when it throws
getAccountKeys(message, alts) ==
  LET lookups == message.addressTableLookups IN
  IF \A i \in DOMAIN lookups : LookupResolves(alts, lookups[i])
    THEN [staticAccountKeys |-> message.staticAccountKeys,
          writable |-> Flat([i \in DOMAIN lookups |->
                        Pick(FindTable(alts, lookups[i].accountKey).addresses,
                             lookups[i].writableIndexes)]),
          readonly |-> Flat([i \in DOMAIN lookups |->
                        Pick(FindTable(alts, lookups[i].accountKey).addresses,
                             lookups[i].readonlyIndexes)])]
    ELSE NULL

\* accountKeys.keySegments().flat()
keySegments(accountKeys) ==
  << accountKeys.staticAccountKeys, accountKeys.writable, accountKeys.readonly >>


(* ------------------------------------------------------------------ *)
(* The relevance scan of preSimulationFilter                           *)
(* ------------------------------------------------------------------ *)
\* Set.prototype.add on a Set kept in insertion order
SetAddKeepDuplicates(set, s) == Append(set, s)
SetAdd(set, s) == IF includes(set, s) THEN set ELSE Append(set, s)

\* "const accountsOfInterest = new Set<string>()" in the body of the
\* transaction loop: whatever the sets of earlier transactions held, the
\* scan starts from the empty set
NewSetKeepsEarlier(earlier) == IF earlier = << >> THEN << >> ELSE earlier[Len(earlier)]
NewSet(earlier) == << >>

\* the loop "for (const key of accountKeys.keySegments().flat())" from
\* position i on, with the matches accumulated so far; tested lists the
\* key strings handed to isTokenAccountOfInterest, in call order
RECURSIVE ScanFromNoBreak(_, _, _)
RECURSIVE ScanFrom(_, _, _)
ScanFromNoBreak(keys, i, accountsOfInterest) ==
  IF i > Len(keys)
    THEN [skipTx |-> FALSE, accountsOfInterest |-> accountsOfInterest,
          tested |-> << >>]
    ELSE LET keyStr == toBase58(keys[i]) IN
         IF includes(SKIP_TX_IF_CONTAINS_ADDRESS, keyStr)
           THEN [ScanFromNoBreak(keys, i + 1, accountsOfInterest)
                   EXCEPT !.skipTx = TRUE]
           ELSE LET rest == ScanFromNoBreak(keys, i + 1,
                              IF isTokenAccountOfInterest(keyStr)
                                THEN SetAdd(accountsOfInterest, keyStr)
                                ELSE accountsOfInterest)
                IN [rest EXCEPT !.tested = << keyStr >> \o rest.tested]
ScanFrom(keys, i, accountsOfInterest) ==
  IF i > Len(keys)
    THEN [skipTx |-> FALSE, accountsOfInterest |-> accountsOfInterest,
          tested |-> << >>]
    ELSE LET keyStr == toBase58(keys[i]) IN
         IF includes(SKIP_TX_IF_CONTAINS_ADDRESS, keyStr)
           THEN [skipTx |-> TRUE, accountsOfInterest |-> accountsOfInterest,
                 tested |-> << >>]
           ELSE LET rest == ScanFrom(keys, i + 1,
                              IF isTokenAccountOfInterest(keyStr)
                                THEN SetAdd(accountsOfInterest, keyStr)
                                ELSE accountsOfInterest)
                IN [rest EXCEPT !.tested = << keyStr >> \o rest.tested]

\* "if (skipTx) continue;"
SkipCheckIgnored(skipTx) == FALSE
SkipCheck(skipTx) == skipTx

\* "if (accountsOfInterest.size === 0) continue;"
EmptyCheckIgnored(accountsOfInterest) == FALSE
EmptyCheck(accountsOfInterest) == Len(accountsOfInterest) = 0

\* the timings of the yielded record
ZeroTimings ==
  [mempoolEnd |-> 0, preSimEnd |-> 0, simEnd |-> 0, postSimEnd |-> 0,
   calcArbEnd |-> 0, buildBundleEnd |-> 0, bundleSent |-> 0]
YieldTimingsStampedLate(timings, dateNow) ==
  [ZeroTimings EXCEPT !.mempoolEnd = timings.mempoolEnd, !.simEnd = dateNow]
YieldTimings(timings, dateNow) ==
  [mempoolEnd |-> timings.mempoolEnd, preSimEnd |-> dateNow, simEnd |-> 0,
   postSimEnd |-> 0, calcArbEnd |-> 0, buildBundleEnd |-> 0, bundleSent |-> 0]

\* "for (const txn of txns)": the i-th transaction visited
TxnAtReversed(txns, i) == txns[Len(txns) + 1 - i]
TxnAt(txns, i) == txns[i]

\* the transaction loop moves on to the element after the one at i
NextTxnStaysPut(i) == i
NextTxn(i) == i + 1

\* "for (const lookup of txn.message.addressTableLookups)": the position of
\* the lookup whose table is awaited once those in resolved were pushed
NextLookupFromEnd(lookups, resolved) == Len(lookups) - Len(resolved)
NextLookup(lookups, resolved) == Len(resolved) + 1

\* "yield": the generator is suspended until the downstream stage asks again
AfterYieldRunsOn == "txn"
AfterYield == "yielded"

(* ------------------------------------------------------------------ *)
(* The bounded relay (dropBeyondHighWaterMark)                         *)
(* ------------------------------------------------------------------ *)
\* the buffer after a batch arrives: drop-oldest at capacity
RelayPushUnbounded(buf, highWaterMark, b) == Append(buf, b)
RelayPushDropNewest(buf, highWaterMark, b) ==
  IF Len(buf) >= highWaterMark THEN buf ELSE Append(buf, b)
RelayPush(buf, highWaterMark, b) ==
  IF Len(buf) >= highWaterMark THEN Append(Tail(buf), b) ELSE Append(buf, b)

\* the batches discarded by that arrival, which the relay logs
RelayEvictSilent(buf, highWaterMark) == << >>
RelayEvict(buf, highWaterMark) ==
  IF Len(buf) >= highWaterMark THEN << Head(buf) >> ELSE << >>

\* the relay's stream ends once the producer ended and nothing is retained
RelayEnds(buf, ended) == ended /\ buf = << >>

\* a push is accepted whatever the relay retains: the producer never waits
RelayAcceptsBelowCapacity(buf, highWaterMark) == Len(buf) < highWaterMark
RelayAccepts(buf, highWaterMark) == TRUE

\* the relay signals end-of-stream only after the producer ended, so a fault
\* of the producer reaches the relay's consumer as a fault
RelayFaults(buf, faulted) == faulted

\* a relay that is stopped lets go of the batches it retains
RelayRelease(buf) == << >>

(* ------------------------------------------------------------------ *)
(* State                                                               *)
(* ------------------------------------------------------------------ *)
VARIABLES
  capacity,      \* HIGH_WATER_MARK handed to the relay (250 in the source)
  now,           \* the latest time any party read off the clock
  produced,      \* the txns of every batch the producer pushed, in push order
  producerEnded, \* the producer's stream has ended
  producerFaulted, \* the producer's stream has thrown
  buffer,        \* relay: the MempoolUpdates retained, oldest first
  evicted,       \* relay: numbers of the batches discarded, as logged, in order
  delivered,     \* numbers of the batches handed to the for-await loop, in order
  burst,         \* no batch was pushed after the first one was delivered
  pc,            \* where the generator stands
  cur,           \* the MempoolUpdate being iterated
  txnIdx,        \* position of the current txn in that batch
  addressLookupTableAccounts, \* tables resolved so far for the current txn
  yielded,       \* the FilteredTransaction of the pending yield, if any
  emittedFrom,   \* <<batch number, position>> of every txn yielded, in order
  emittedAccounts, \* the accountsOfInterest of every record yielded, in order
  unresolved,    \* <<batch, position>> of txns for which a lookup returned null
  warned,        \* <<batch, position>> of txns for which logger.warn was called
  resolverCalls, \* the getLookupTable calls made for the latest txn, in order
  interestCalls, \* the isTokenAccountOfInterest calls made for it, in order
  stopRequested  \* the downstream stage has called return() on the generator

vars == << capacity, now, produced, producerEnded, producerFaulted, buffer,
           evicted, delivered, burst, pc, cur, txnIdx,
           addressLookupTableAccounts, yielded, emittedFrom, emittedAccounts,
           unresolved, warned, resolverCalls, interestCalls, stopRequested >>

relayVars == << produced, producerEnded, producerFaulted, buffer, evicted,
                delivered, burst >>
txnVars == << cur, txnIdx, addressLookupTableAccounts >>
outVars == << yielded, emittedFrom, emittedAccounts >>
logVars == << unresolved, warned >>
callVars == << resolverCalls, interestCalls >>

\* a MempoolUpdate as an object of the heap: no is its identity, the number
\* of the push that brought it
MempoolUpdate(no, txns, timings) == [no |-> no, txns |-> txns, timings |-> timings]
\* the loop variables before the first and between two iterations
NoUpdate == MempoolUpdate(0, << >>, ZeroTimings)

Init ==
  /\ capacity \in 1..MaxCapacity
  /\ now = 1
  /\ produced = << >>
  /\ producerEnded = FALSE
  /\ producerFaulted = FALSE
  /\ buffer = << >>
  /\ evicted = << >>
  /\ delivered = << >>
  /\ burst = TRUE
  /\ pc = "init"
  /\ cur = NoUpdate
  /\ txnIdx = 0
  /\ addressLookupTableAccounts = << >>
  /\ yielded = << >>
  /\ emittedFrom = << >>
  /\ emittedAccounts = << >>
  /\ unresolved = {}
  /\ warned = {}
  /\ resolverCalls = << >>
  /\ interestCalls = << >>
  /\ stopRequested = FALSE

(* ------------------------------------------------------------------ *)
(* Environment: the clock and the producer                             *)
(* ------------------------------------------------------------------ *)
\* Date.now(): the clock does not run backwards, so a read returns a time
\* that is not before the latest one read
DateNow == now..MaxClock

\* the relay is made by the generator's first step (line 40) and takes from
\* the producer from then on, until the generator is made to return
RelayRunning == pc \notin {"init", "returned"}

\* the producer hands a MempoolUpdate, stamped with its mempoolEnd, to the relay
ProducerPush ==
  /\ ~producerEnded
  /\ ~producerFaulted
  /\ RelayRunning
  /\ RelayAccepts(buffer, capacity)
  /\ Len(produced) < MaxBatches
  /\ \E c \in DOMAIN BatchCatalog, dateNow \in DateNow :
       LET update == MempoolUpdate(Len(produced) + 1, BatchCatalog[c],
                                   [ZeroTimings EXCEPT !.mempoolEnd = dateNow])
           dropped == RelayEvict(buffer, capacity)
       IN /\ produced' = Append(produced, update.txns)
          /\ now' = dateNow
          /\ buffer' = RelayPush(buffer, capacity, update)
          /\ evicted' = evicted \o [i \in DOMAIN dropped |-> dropped[i].no]
  /\ burst' = (burst /\ delivered = << >>)
  /\ UNCHANGED << capacity, producerEnded, producerFaulted, delivered, pc,
                  txnVars, outVars, logVars, callVars, stopRequested >>

ProducerEnd ==
  /\ ~producerEnded
  /\ ~producerFaulted
  /\ RelayRunning
  /\ producerEnded' = TRUE
  /\ UNCHANGED << capacity, now, produced, producerFaulted, buffer, evicted,
                  delivered, burst, pc, txnVars, outVars, logVars, callVars,
                  stopRequested >>

\* the producer's stream throws instead of giving its next batch
ProducerFault ==
  /\ ~producerEnded
  /\ ~producerFaulted
  /\ RelayRunning
  /\ producerFaulted' = TRUE
  /\ UNCHANGED << capacity, now, produced, producerEnded, buffer, evicted,
                  delivered, burst, pc, txnVars, outVars, logVars, callVars,
                  stopRequested >>

(* ------------------------------------------------------------------ *)
(* The generator preSimulationFilter                                   *)
(* ------------------------------------------------------------------ *)
\* the downstream stage calls next(): the generator starts, or resumes
\* after its yield with the next transaction of the batch
DownstreamNext ==
  /\ pc \in {"init", "yielded"}
  /\ ~stopRequested
  /\ IF pc = "init"
       THEN pc' = "pull" /\ UNCHANGED txnIdx
       ELSE pc' = "txn" /\ txnIdx' = NextTxn(txnIdx)
  /\ yielded' = << >>
  /\ UNCHANGED << capacity, now, relayVars, cur, addressLookupTableAccounts,
                  emittedFrom, emittedAccounts, logVars, callVars,
                  stopRequested >>

\* "for await (const { txns, timings } of mempoolUpdatesGreedy)": the relay
\* hands over its oldest batch, or ends the loop and with it the generator
Pull ==
  /\ pc = "pull"
  /\ IF RelayEnds(buffer, producerEnded)
       THEN /\ pc' = "done"
            /\ UNCHANGED << buffer, delivered, txnVars >>
       ELSE /\ buffer # << >>
            /\ cur' = Head(buffer)
            /\ buffer' = Tail(buffer)
            /\ delivered' = Append(delivered, Head(buffer).no)
            /\ txnIdx' = 1
            /\ pc' = "txn"
            /\ UNCHANGED addressLookupTableAccounts
  /\ UNCHANGED << capacity, now, produced, producerEnded, producerFaulted,
                  evicted, burst, outVars, logVars, callVars, stopRequested >>

\* the same await when the relay's stream rejects: no try statement
\* encloses the for-await loop, so the rejection leaves the generator
PullRejects ==
  /\ pc = "pull"
  /\ RelayFaults(buffer, producerFaulted)
  /\ pc' = "rejected"
  /\ UNCHANGED << capacity, now, relayVars, txnVars, outVars, logVars,
                  callVars, stopRequested >>

\* lines 65-123 for the current transaction, run once the lookup loop is
\* left with the tables in alts: build the key list, scan it, then yield or
\* go on to the next transaction
Finish(alts) ==
  LET txn == TxnAt(cur.txns, txnIdx)
      accountKeys == getAccountKeys(txn, alts)
  IN
  /\ warned' = IF accountKeys = NULL THEN warned \cup {<<cur.no, txnIdx>>} ELSE warned
  /\ addressLookupTableAccounts' = << >>
  /\ IF accountKeys = NULL
       THEN \* accountKeys.keySegments() on null: TypeError leaves the generator
            /\ pc' = "faulted"
            /\ interestCalls' = << >>
            /\ UNCHANGED << now, txnIdx, outVars >>
       ELSE LET scan == ScanFrom(Flat(keySegments(accountKeys)), 1,
                                 NewSet(emittedAccounts))
            IN
            /\ interestCalls' = [i \in DOMAIN scan.tested |->
                                  [occ |-> <<cur.no, txnIdx>>,
                                   keyStr |-> scan.tested[i]]]
            /\ IF SkipCheck(scan.skipTx) \/ EmptyCheck(scan.accountsOfInterest)
                 THEN /\ pc' = "txn"
                      /\ txnIdx' = NextTxn(txnIdx)
                      /\ UNCHANGED << now, outVars >>
                 ELSE \E dateNow \in DateNow :
                      /\ yielded' = << [txn |-> txn,
                                        accountsOfInterest |-> scan.accountsOfInterest,
                                        timings |-> YieldTimings(cur.timings, dateNow)] >>
                      /\ now' = dateNow
                      /\ emittedFrom' = Append(emittedFrom, <<cur.no, txnIdx>>)
                      /\ emittedAccounts' = Append(emittedAccounts, scan.accountsOfInterest)
                      /\ pc' = AfterYield
                      /\ UNCHANGED txnIdx

\* head of "for (const txn of txns)": leave the batch when it is exhausted
\* (its variables go out of scope), else start on the transaction: await
\* its first lookup table, or, when it has none, go straight through to
\* the scan
StartTxn ==
  /\ pc = "txn"
  /\ IF txnIdx > Len(cur.txns)
       THEN /\ pc' = "pull"
            /\ cur' = NoUpdate
            /\ resolverCalls' = << >>
            /\ interestCalls' = << >>
            /\ UNCHANGED << now, txnIdx, addressLookupTableAccounts, outVars, logVars >>
       ELSE IF TxnAt(cur.txns, txnIdx).addressTableLookups = << >>
         THEN /\ Finish(<< >>)
              /\ resolverCalls' = << >>
              /\ UNCHANGED << cur, unresolved >>
         ELSE /\ pc' = "await"
              /\ addressLookupTableAccounts' = << >>
              /\ resolverCalls' = << >>
              /\ interestCalls' = << >>
              /\ UNCHANGED << now, cur, txnIdx, outVars, logVars >>
  /\ UNCHANGED << capacity, relayVars, stopRequested >>

\* "const lut = await lookupTableProvider.getLookupTable(lookup.accountKey)"
\* returns: null breaks the loop, a table is pushed and the loop goes on
\* with the next lookup or is left
ResolverReturn ==
  /\ pc = "await"
  /\ LET lookups == TxnAt(cur.txns, txnIdx).addressTableLookups
         ref == NextLookup(lookups, addressLookupTableAccounts)
         lookup == lookups[ref]
     IN \E lut \in getLookupTable(lookup.accountKey) :
          /\ resolverCalls' = Append(resolverCalls,
                                     [occ |-> <<cur.no, txnIdx>>, ref |-> ref,
                                      found |-> lut # NULL])
          /\ IF lut = NULL
               THEN /\ unresolved' = unresolved \cup {<<cur.no, txnIdx>>}
                    /\ Finish(addressLookupTableAccounts)
                    /\ UNCHANGED cur
               ELSE IF Len(addressLookupTableAccounts) + 1 < Len(lookups)
                 THEN /\ addressLookupTableAccounts' = Append(addressLookupTableAccounts, lut)
                      /\ UNCHANGED << now, pc, cur, txnIdx, outVars, logVars,
                                      interestCalls >>
                 ELSE /\ Finish(Append(addressLookupTableAccounts, lut))
                      /\ UNCHANGED << cur, unresolved >>
  /\ UNCHANGED << capacity, relayVars, stopRequested >>

\* the downstream stage calls return() on the generator. A generator that
\* is suspended at its start or at its yield completes at once, and leaving
\* the for-await loop stops the relay; a generator that is running keeps the
\* request queued behind the next() it is serving
DownstreamReturn ==
  /\ ~stopRequested
  /\ pc \in {"init", "pull", "txn", "await", "yielded"}
  /\ stopRequested' = TRUE
  /\ IF pc \in {"init", "yielded"}
       THEN /\ pc' = "returned"
            /\ yielded' = << >>
            /\ buffer' = RelayRelease(buffer)
       ELSE UNCHANGED << pc, yielded, buffer >>
  /\ UNCHANGED << capacity, now, produced, producerEnded, producerFaulted,
                  evicted, delivered, burst, txnVars, emittedFrom,
                  emittedAccounts, logVars, callVars >>

\* the next() being served has settled with a yielded record: the queued
\* return() is taken up and the generator completes
QueuedReturn ==
  /\ stopRequested
  /\ pc = "yielded"
  /\ pc' = "returned"
  /\ yielded' = << >>
  /\ buffer' = RelayRelease(buffer)
  /\ UNCHANGED << capacity, now, produced, producerEnded, producerFaulted,
                  evicted, delivered, burst, txnVars, emittedFrom,
                  emittedAccounts, logVars, callVars, stopRequested >>

Next ==
  \/ ProducerPush
  \/ ProducerEnd
  \/ DownstreamNext
  \/ Pull
  \/ StartTxn
  \/ ResolverReturn

Spec == Init /\ [][Next]_vars

\* the event loop runs every continuation that is ready, and the downstream
\* stage keeps asking for the next record
FairSpec ==
  /\ Spec
  /\ WF_vars(DownstreamNext)
  /\ WF_vars(Pull)
  /\ WF_vars(StartTxn)
  /\ WF_vars(ResolverReturn)

\* the same system with a producer that may throw
FaultNext ==
  \/ Next
  \/ ProducerFault
  \/ PullRejects

FaultSpec == Init /\ [][FaultNext]_vars

\* the same system with a downstream stage that may stop the generator
CancelNext ==
  \/ Next
  \/ DownstreamReturn
  \/ QueuedReturn

CancelSpec == Init /\ [][CancelNext]_vars

(* ------------------------------------------------------------------ *)
(* Vocabulary of the properties                                        *)
(* ------------------------------------------------------------------ *)
Range(seq) == {seq[i] : i \in DOMAIN seq}
Last(seq) == seq[Len(seq)]

\* the transaction at <<batch number, position>> as the producer sent it
TxnOf(occ) == produced[occ[1]][occ[2]]

Occurrences ==
  {occ \in (1..Len(produced)) \X (1..3) : occ[2] <= Len(produced[occ[1]])}

\* the generator is through with the transaction at occ
Processed(occ) ==
  /\ occ[1] \in Range(delivered)
  /\ \/ occ[1] # Last(delivered)
     \/ occ[2] < txnIdx
     \/ occ[2] = txnIdx /\ pc = "yielded"

Emitted(occ) == occ \in Range(emittedFrom)

\* the transactions of the catalogue
CatalogTxns == UNION {Range(BatchCatalog[c]) : c \in DOMAIN BatchCatalog}

\* every table the transaction refers to exists and holds every index used
ResolvableTxns ==
  {txn \in CatalogTxns :
     \A i \in DOMAIN txn.addressTableLookups :
       LET lookup == txn.addressTableLookups[i] IN
       /\ lookup.accountKey \in DOMAIN TableAddresses
       /\ IndexesInRange(TableAddresses[lookup.accountKey], lookup.writableIndexes)
       /\ IndexesInRange(TableAddresses[lookup.accountKey], lookup.readonlyIndexes)}
FullyResolvable(txn) == txn \in ResolvableTxns

\* the full account-key list: static keys, then the keys of the tables
KeyListOf ==
  [txn \in ResolvableTxns |->
     LET lookups == txn.addressTableLookups IN
     txn.staticAccountKeys
       \o Flat([i \in DOMAIN lookups |->
                  Pick(TableAddresses[lookups[i].accountKey], lookups[i].writableIndexes)])
       \o Flat([i \in DOMAIN lookups |->
                  Pick(TableAddresses[lookups[i].accountKey], lookups[i].readonlyIndexes)])]
FullKeyList(txn) == KeyListOf[txn]

KeyStringsOf ==
  [txn \in ResolvableTxns |-> {toBase58(k) : k \in Range(KeyListOf[txn])}]
FullKeyStrings(txn) == KeyStringsOf[txn]
SkipListed(s) == \E i \in DOMAIN SKIP_TX_IF_CONTAINS_ADDRESS : SKIP_TX_IF_CONTAINS_ADDRESS[i] = s
SkipListedIn ==
  [txn \in ResolvableTxns |-> \E s \in KeyStringsOf[txn] : SkipListed(s)]
HasSkipListedKey(txn) == SkipListedIn[txn]
InterestIn ==
  [txn \in ResolvableTxns |-> {s \in KeyStringsOf[txn] : isTokenAccountOfInterest(s)}]
KeysOfInterest(txn) == InterestIn[txn]

\* position of the first key of the list whose string is s
FirstSeen(keys, s) ==
  CHOOSE i \in DOMAIN keys :
    toBase58(keys[i]) = s /\ \A j \in DOMAIN keys : toBase58(keys[j]) = s => i <= j

\* position of a batch in the order of delivery
DeliveryPos(b) == CHOOSE i \in DOMAIN delivered : delivered[i] = b

(* ------------------------------------------------------------------ *)
(* C1                                                                  *)
(* ------------------------------------------------------------------ *)
\* C1: a transaction for which the resolver returned null is not emitted,
\* a warning is recorded for it, and the output stream does not fault
\* because of it (the transactions after it can still be emitted).
C1_LookupFailureIsolated ==
  \A occ \in unresolved :
    /\ ~Emitted(occ)
    /\ occ \in warned
    /\ ~(pc = "faulted" /\ << cur.no, txnIdx >> = occ)

(* ------------------------------------------------------------------ *)
(* C2                                                                  *)
(* ------------------------------------------------------------------ *)
\* C2: when key-list construction failed for a transaction (a warning was
\* logged for it), the transaction is skipped before the scan and the
\* generator goes on: the scan never runs on the absent key list, which
\* is what leaves the generator with a TypeError.
C2_MalformedNeverTerminates ==
  \A occ \in warned : Processed(occ) /\ ~Emitted(occ) /\ pc # "faulted"

(* ------------------------------------------------------------------ *)
(* C3                                                                  *)
(* ------------------------------------------------------------------ *)
\* C3: no emitted transaction has a skip-listed address anywhere in its
\* full account-key list, whatever keys of interest surround it.
C3_SkipListVeto ==
  /\ \A i \in DOMAIN yielded : ~HasSkipListedKey(yielded[i].txn)
  /\ \A occ \in Range(emittedFrom) : ~HasSkipListedKey(TxnOf(occ))

\* a transaction with a key of interest before and after a skip-listed key
\* went through the generator and was not emitted
C3_Witness ==
  \E occ \in Occurrences :
    /\ Processed(occ)
    /\ TxnOf(occ) = TxSkip
    /\ KeysOfInterest(TxnOf(occ)) # {}
    /\ ~Emitted(occ)

(* ------------------------------------------------------------------ *)
(* C4                                                                  *)
(* ------------------------------------------------------------------ *)
\* C4: the relay never retains more than capacity batches, capacity >= 1.
C4_BoundedBuffer == capacity >= 1 /\ Len(buffer) <= capacity

\* the buffer is full after an eviction, pushes and pulls having interleaved
C4_Witness ==
  /\ Len(buffer) = capacity
  /\ evicted # << >>
  /\ delivered # << >>
  /\ ~burst

(* ------------------------------------------------------------------ *)
(* C5                                                                  *)
(* ------------------------------------------------------------------ *)
\* C5: when all the batches were pushed before the first one was consumed
\* and they are N+k with k >= 0, the evicted ones are exactly the k oldest,
\* in order, and what was delivered followed by what is still retained is
\* the N most recent in push order (N = 1: the latest batch only).
C5_DropOldest ==
  (burst /\ Len(produced) >= capacity) =>
     LET k == Len(produced) - capacity IN
     /\ evicted = [i \in 1..k |-> i]
     /\ delivered \o [i \in DOMAIN buffer |-> buffer[i].no] = [i \in 1..capacity |-> k + i]
     /\ \A i \in DOMAIN buffer : buffer[i].txns = produced[buffer[i].no]

\* three batches pushed into a relay of capacity 2 before any pull, and the
\* two most recent delivered by the end of the stream
C5_Witness ==
  /\ burst
  /\ capacity = 2
  /\ Len(produced) = 3
  /\ pc = "done"
  /\ delivered = << 2, 3 >>

(* ------------------------------------------------------------------ *)
(* C6                                                                  *)
(* ------------------------------------------------------------------ *)
\* C6: accountsOfInterest of an emitted record is, as a set, the keys of
\* the full key list that are of interest; it has no duplicates and is in
\* first-seen order.
C6_AccountsOfInterest ==
  \A r \in DOMAIN yielded :
    LET a == yielded[r].accountsOfInterest
        txn == TxnOf(Last(emittedFrom))
        keys == FullKeyList(txn)
    IN /\ Range(a) = KeysOfInterest(txn)
       /\ \A x, y \in DOMAIN a : a[x] = a[y] => x = y
       /\ \A x, y \in DOMAIN a : x < y => FirstSeen(keys, a[x]) < FirstSeen(keys, a[y])

\* emitted: a transaction whose keys of interest are a static key, met again
\* among the keys of its lookup tables, and a key of a lookup table
C6_Witness ==
  \E r \in DOMAIN yielded :
    /\ TxnOf(Last(emittedFrom)) = TxTwoTables
    /\ yielded[r].accountsOfInterest = << "MktB", "MktA" >>

(* ------------------------------------------------------------------ *)
(* C7                                                                  *)
(* ------------------------------------------------------------------ *)
\* C7: every emitted record has a non-empty accountsOfInterest, and no
\* transaction without a key of interest in its full key list is emitted.
C7_EmptyInterestDrop ==
  /\ \A r \in DOMAIN yielded : yielded[r].accountsOfInterest # << >>
  /\ \A occ \in Range(emittedFrom) : KeysOfInterest(TxnOf(occ)) # {}

\* a transaction without skip-listed key and without key of interest went
\* through the generator and was not emitted
C7_Witness ==
  \E occ \in Occurrences :
    /\ Processed(occ)
    /\ FullyResolvable(TxnOf(occ))
    /\ KeysOfInterest(TxnOf(occ)) = {}
    /\ ~HasSkipListedKey(TxnOf(occ))
    /\ ~Emitted(occ)

(* ------------------------------------------------------------------ *)
(* C8                                                                  *)
(* ------------------------------------------------------------------ *)
\* the stamp the producer put on the batch being iterated
BatchMempoolEnd == cur.timings.mempoolEnd

C8_Stamps ==
  \A r \in DOMAIN yielded :
    LET t == yielded[r].timings IN
    /\ cur.no = Last(emittedFrom)[1]
    /\ t.mempoolEnd = BatchMempoolEnd
    /\ t.preSimEnd >= t.mempoolEnd
    /\ t.simEnd = 0 /\ t.postSimEnd = 0 /\ t.calcArbEnd = 0
    /\ t.buildBundleEnd = 0 /\ t.bundleSent = 0

C8_StampedAtEmission ==
  yielded' # yielded /\ yielded' # << >> => yielded'[1].timings.preSimEnd = now'

\* C8: an emitted record carries the mempoolEnd of its batch, a preSimEnd
\* that is the clock at emission and is not before mempoolEnd, and zero in
\* every later-stage field.
C8_TimingCheckpoints == [](C8_Stamps) /\ [][C8_StampedAtEmission]_vars

\* a record emitted after the clock advanced past its batch's mempoolEnd
C8_Witness ==
  \E r \in DOMAIN yielded :
    /\ yielded[r].timings.mempoolEnd >= 1
    /\ yielded[r].timings.preSimEnd > yielded[r].timings.mempoolEnd

(* ------------------------------------------------------------------ *)
(* C9                                                                  *)
(* ------------------------------------------------------------------ *)
\* occ1 comes before occ2 in batch-delivery order, then intra-batch order
InputBefore(occ1, occ2) ==
  \/ DeliveryPos(occ1[1]) < DeliveryPos(occ2[1])
  \/ occ1[1] = occ2[1] /\ occ1[2] < occ2[2]

\* the positions of the transactions emitted from batch b, in emission order
EmittedOfBatch(b) ==
  LET from == SelectSeq(emittedFrom, LAMBDA occ : occ[1] = b)
  IN [j \in DOMAIN from |-> from[j][2]]

\* C9: the emitted sequence is a subsequence of the input in delivery order
\* then intra-batch order: each record carries the transaction at its
\* place of the input, each record comes later in the input than the one
\* emitted before it (so earlier input is emitted first, the order being
\* transitive), and a batch none of whose transactions is dropped comes
\* out in input order.
C9_OrderingPreserved ==
  /\ Range(emittedFrom) \subseteq Occurrences
  /\ \A i \in DOMAIN emittedFrom : emittedFrom[i][1] \in Range(delivered)
  /\ \A r \in DOMAIN yielded : yielded[r].txn = TxnOf(Last(emittedFrom))
  /\ \A i, j \in DOMAIN emittedFrom :
       j = i + 1 => InputBefore(emittedFrom[i], emittedFrom[j])
  /\ \A b \in Range(delivered) :
       Len(EmittedOfBatch(b)) = Len(produced[b]) =>
         EmittedOfBatch(b) = [j \in DOMAIN produced[b] |-> j]

\* a batch of three transactions came out whole, after another batch had
\* emitted
C9_Witness ==
  \E b \in Range(delivered) :
    /\ Len(produced[b]) = 3
    /\ Len(EmittedOfBatch(b)) = 3
    /\ Len(emittedFrom) > 3

(* ------------------------------------------------------------------ *)
(* C10                                                                 *)
(* ------------------------------------------------------------------ *)
\* C10: the output signals end-of-stream only after the producer ended and
\* every retained batch was consumed; once the producer has ended it
\* eventually does so; a producer that ends without a batch yields an
\* output that ends with nothing emitted.
C10_EndOfStream ==
  /\ [](pc = "done" => producerEnded /\ buffer = << >>)
  /\ [](pc = "done" /\ produced = << >> => emittedFrom = << >>)
  /\ (producerEnded ~> pc = "done")

(* ------------------------------------------------------------------ *)
(* C11                                                                 *)
(* ------------------------------------------------------------------ *)
\* C11: when the producer's stream has thrown, no exception leaves the
\* generator towards its consumer: the output does not end by the
\* rejection of the for-await loop.
C11_ProducerFaultGraceful == producerFaulted => pc # "rejected"

(* ------------------------------------------------------------------ *)
(* C12                                                                 *)
(* ------------------------------------------------------------------ *)
\* a producer that has a batch to give can push it
C12_PushEnabled ==
  (RelayRunning /\ ~producerEnded /\ ~producerFaulted /\ Len(produced) < MaxBatches)
    => ENABLED ProducerPush

\* a push leaves the new batch as the most recent of the buffer and evicts
\* the oldest one when the buffer was full
C12_PushCompletes ==
  produced' # produced =>
    /\ buffer' # << >>
    /\ buffer'[Len(buffer')].no = Len(produced')
    /\ Len(buffer) < capacity => Len(buffer') = Len(buffer) + 1 /\ evicted' = evicted
    /\ Len(buffer) = capacity =>
         Len(buffer') = capacity /\ evicted' = Append(evicted, Head(buffer).no)

C13_NothingAfterStop ==
  stopRequested =>
    /\ produced' = produced
    /\ delivered' = delivered
    /\ emittedFrom' = emittedFrom

\* C13: cancellation: once the pipeline is stopped it pulls no further
\* batch and emits no further record; the batches the relay retains are
\* let go of, not flushed, and a pending lookup-table call is given up
\* with its transaction.
C13_Cancellation == [][C13_NothingAfterStop]_vars

(* ------------------------------------------------------------------ *)
(* C14                                                                 *)
(* ------------------------------------------------------------------ *)
\* the scan of the transaction at occ ran on its full key list
ScannedInFull(occ) ==
  occ \notin unresolved /\ Processed(occ) /\ FullyResolvable(TxnOf(occ))

\* C14: the relevance filter is a function of the key list alone: two
\* occurrences of the same transaction, each scanned on the full key list,
\* are both emitted or both dropped, and when emitted carry the same
\* accountsOfInterest, whatever was processed between them.
C14_FilterDeterministic ==
  /\ \A occ2 \in Occurrences \ Range(emittedFrom) :
       ScannedInFull(occ2) =>
         \A occ1 \in Range(emittedFrom) :
           TxnOf(occ1) # TxnOf(occ2) \/ ~ScannedInFull(occ1)
  /\ \A i, j \in DOMAIN emittedFrom :
       ( /\ i < j
         /\ emittedAccounts[i] # emittedAccounts[j]
         /\ emittedFrom[i] \notin unresolved
         /\ emittedFrom[j] \notin unresolved )
         => TxnOf(emittedFrom[i]) # TxnOf(emittedFrom[j])

\* the same transaction was emitted twice with a record of other
\* accountsOfInterest emitted in between, and was dropped twice with an
\* emission in between
C14_Witness ==
  \/ \E i, k, j \in DOMAIN emittedFrom :
       /\ i < k /\ k < j
       /\ TxnOf(emittedFrom[i]) = TxnOf(emittedFrom[j])
       /\ emittedAccounts[k] # emittedAccounts[i]
  \/ \E occ1, occ2 \in Occurrences, k \in DOMAIN emittedFrom :
       /\ ScannedInFull(occ1) /\ ScannedInFull(occ2)
       /\ TxnOf(occ1) = TxnOf(occ2)
       /\ ~Emitted(occ1) /\ ~Emitted(occ2)
       /\ InputBefore(occ1, emittedFrom[k]) /\ InputBefore(emittedFrom[k], occ2)

(* ------------------------------------------------------------------ *)
(* C15                                                                 *)
(* ------------------------------------------------------------------ *)
\* getAccountKeys returned a key list for the transaction at occ although
\* a lookup of it had returned null: the catch of lines 71-74 did not run
BuiltFromPartial(occ) == occ \in unresolved /\ occ \notin warned

\* C15: expansion is all-or-nothing: when a lookup-table reference of a
\* transaction resolved to null, no key list is built from the tables
\* resolved before it, none is scanned, and nothing is emitted from one.
C15_AllOrNothing ==
  \A occ \in unresolved :
    /\ ~BuiltFromPartial(occ)
    /\ \A i \in DOMAIN interestCalls : interestCalls[i].occ # occ
    /\ ~Emitted(occ)

(* ------------------------------------------------------------------ *)
(* C16                                                                 *)
(* ------------------------------------------------------------------ *)
\* the lookup-table references of the transaction the calls were made for
CalledLookups == TxnOf(resolverCalls[1].occ).addressTableLookups

C16_CallsInOrder ==
  /\ \A i \in DOMAIN resolverCalls :
       /\ resolverCalls[i].occ = resolverCalls[1].occ
       /\ resolverCalls[i].ref = i
       /\ i <= Len(CalledLookups)
       /\ ~resolverCalls[i].found => i = Len(resolverCalls)
  /\ pc = "await" =>
       /\ Len(resolverCalls) = Len(addressLookupTableAccounts)
       /\ Len(resolverCalls) < Len(TxnAt(cur.txns, txnIdx).addressTableLookups)
       /\ \A i \in DOMAIN resolverCalls :
            resolverCalls[i].found /\ resolverCalls[i].occ = << cur.no, txnIdx >>
  /\ (pc # "await" /\ resolverCalls # << >>
        /\ \A i \in DOMAIN resolverCalls : resolverCalls[i].found)
       => Len(resolverCalls) = Len(CalledLookups)
  /\ (pc = "yielded" /\ TxnOf(Last(emittedFrom)).addressTableLookups # << >>)
       => resolverCalls # << >> /\ resolverCalls[1].occ = Last(emittedFrom)

\* C16: the resolver is called for the references of a transaction in
\* their order, once each, one call at a time; no call follows the first
\* that returned null, and when none returned null there is exactly one
\* call per reference.
C16_ResolverProtocol == []C16_CallsInOrder

\* a transaction with two references got null from the first call and no
\* second call, after a transaction with two references was emitted
C16_Witness ==
  /\ Len(resolverCalls) = 1
  /\ ~resolverCalls[1].found
  /\ Len(CalledLookups) = 2
  /\ pc # "await"
  /\ \E occ \in Range(emittedFrom) : Len(TxnOf(occ).addressTableLookups) = 2

(* ------------------------------------------------------------------ *)
(* C17                                                                 *)
(* ------------------------------------------------------------------ *)
\* the key list of the transaction whose scan the calls belong to
ScannedKeys == FullKeyList(TxnOf(interestCalls[1].occ))

C17_ScanStopsAtSkip ==
  /\ \A i \in DOMAIN interestCalls :
       /\ interestCalls[i].occ = interestCalls[1].occ
       /\ i <= Len(ScannedKeys)
       /\ interestCalls[i].keyStr = toBase58(ScannedKeys[i])
       /\ \A j \in 1..i : ~SkipListed(toBase58(ScannedKeys[j]))
  /\ (interestCalls # << >> /\ HasSkipListedKey(TxnOf(interestCalls[1].occ)))
       => /\ ~Emitted(interestCalls[1].occ)
          /\ yielded = << >>
  /\ pc = "yielded" =>
       /\ interestCalls # << >>
       /\ interestCalls[1].occ = Last(emittedFrom)
       /\ Len(interestCalls) = Len(ScannedKeys)

\* C17: the scan is one pass in key order that stops at the first
\* skip-listed key: isTokenAccountOfInterest is called on the keys before
\* it, in order, and on no key at or after it, and the matches found
\* before it are not emitted.
C17_SkipShortCircuit == []C17_ScanStopsAtSkip

\* a key of interest was matched, then a skip-listed key was met, and the
\* key of interest after it was never tested: nothing was emitted
C17_Witness ==
  /\ Len(interestCalls) = 1
  /\ interestCalls[1].keyStr = "MktA"
  /\ TxnOf(interestCalls[1].occ) = TxSkip
  /\ Len(ScannedKeys) = 3
  /\ isTokenAccountOfInterest(toBase58(ScannedKeys[3]))
  /\ yielded = << >>
  /\ emittedFrom = << >>

(* ------------------------------------------------------------------ *)
(* C18                                                                 *)
(* ------------------------------------------------------------------ *)
\* the transactions for which a lookup-table call or a scan is logged or
\* pending
InHand ==
  {resolverCalls[i].occ : i \in DOMAIN resolverCalls}
    \cup {interestCalls[i].occ : i \in DOMAIN interestCalls}
    \cup (IF pc = "await" THEN {<< cur.no, txnIdx >>} ELSE {})

\* the transaction at occ was scanned on its full key list and passes
Passing(occ) ==
  /\ ScannedInFull(occ)
  /\ ~HasSkipListedKey(TxnOf(occ))
  /\ KeysOfInterest(TxnOf(occ)) # {}

C18_OneAtATime ==
  /\ Len(yielded) <= 1
  /\ yielded # << >> => pc = "yielded" /\ InHand \subseteq {Last(emittedFrom)}
  /\ \A occ2 \in InHand :
       \A occ1 \in Occurrences :
         \/ Processed(occ1) /\ (Emitted(occ1) \/ ~Passing(occ1))
         \/ occ1[1] \notin Range(delivered)
         \/ ~InputBefore(occ1, occ2)

\* C18: transactions are processed one at a time and a passing one is
\* emitted at once: while a record is held out at the yield nothing else
\* is called or scanned, at most one record is held, and when a call or a
\* scan is made for a transaction, every transaction before it in the
\* input is done with, the passing ones emitted.
C18_SequentialEmission == []C18_OneAtATime

\* a lookup-table call is pending for the second transaction of a batch
\* whose first transaction passed and is emitted
C18_Witness ==
  /\ pc = "await"
  /\ txnIdx = 2
  /\ emittedFrom # << >>
  /\ Last(emittedFrom) = << cur.no, 1 >>
  /\ Passing(<< cur.no, 1 >>)

(* ------------------------------------------------------------------ *)
(* C19                                                                 *)
(* ------------------------------------------------------------------ *)
\* the numbers of the batches the relay retains
Retained == {buffer[i].no : i \in DOMAIN buffer}

\* C19: under every interleaving of pushes, evictions and pops, a batch
\* the producer pushed is retained, or was delivered once, or was evicted
\* and logged once, and never two of these; once the stream has ended
\* normally every batch was either delivered or evicted.
C19_AtomicBuffer ==
  /\ \A i, j \in DOMAIN delivered : delivered[i] = delivered[j] => i = j
  /\ \A i, j \in DOMAIN evicted : evicted[i] = evicted[j] => i = j
  /\ \A i, j \in DOMAIN buffer : buffer[i].no = buffer[j].no => i = j
  /\ Range(delivered) \cap Range(evicted) = {}
  /\ Range(delivered) \cap Retained = {}
  /\ Range(evicted) \cap Retained = {}
  /\ Range(delivered) \cup Range(evicted) \cup Retained = 1..Len(produced)
  /\ pc = "done" => Range(delivered) \cup Range(evicted) = 1..Len(produced)

\* the stream ended normally after pushes and pops interleaved, with a
\* batch evicted after the first delivery
C19_Witness ==
  /\ pc = "done"
  /\ ~burst
  /\ Len(produced) = 3
  /\ evicted # << >>
  /\ delivered # << >>
  /\ \E i \in DOMAIN evicted : evicted[i] > delivered[1]

(* ------------------------------------------------------------------ *)
(* C20                                                                 *)
(* ------------------------------------------------------------------ *)
\* the generator dropped the transaction at occ: its key list could not be
\* built, or held a skip-listed key, or held no key of interest
Skipped(occ) ==
  /\ Processed(occ)
  /\ \/ occ \in warned
     \/ HasSkipListedKey(TxnOf(occ))
     \/ KeysOfInterest(TxnOf(occ)) = {}

\* C20: every emitted record carries, as the producer sent it, a
\* transaction of a batch the relay delivered; no occurrence of a
\* transaction is emitted twice; no transaction of an evicted batch is
\* resolved, scanned or emitted; a transaction the generator dropped is
\* not emitted.
C20_AtMostOnce ==
  /\ \A i, j \in DOMAIN emittedFrom : emittedFrom[i] = emittedFrom[j] => i = j
  /\ \A occ \in Range(emittedFrom) :
       /\ occ \in Occurrences
       /\ occ[1] \in Range(delivered)
       /\ occ[1] \notin Range(evicted)
  /\ \A r \in DOMAIN yielded :
       /\ pc = "yielded"
       /\ Last(emittedFrom) = << cur.no, txnIdx >>
       /\ yielded[r].txn = produced[cur.no][txnIdx]
  /\ \A occ \in InHand : occ[1] \in Range(delivered) /\ occ[1] \notin Range(evicted)
  /\ cur.no \notin Range(evicted)
  /\ \A occ \in Range(emittedFrom) : ~Skipped(occ)

\* a batch was evicted, a transaction of a delivered batch was dropped and
\* one that came after it in the input was emitted, the stream having ended
C20_Witness ==
  /\ pc = "done"
  /\ evicted # << >>
  /\ \E occ1 \in Occurrences, occ2 \in Range(emittedFrom) :
       /\ Skipped(occ1)
       /\ InputBefore(occ1, occ2)

====
